---- MODULE Spec2Model ----
(***************************************************************************)
(* Monte Carlo path simulation of snusnusnu/math_finance (crate pricing):  *)
(* scalar geometric Brownian motion (simulation/sde/gbm.rs), correlated    *)
(* multivariate geometric Brownian motion (simulation/multivariate_gbm.rs) *)
(* and the European basket option pricer built on them                     *)
(* (simulation/products/basket_option.rs).                                 *)
(*                                                                         *)
(* f64 values are modelled as fixed-point integers with Scale units per    *)
(* 1.0; products are rescaled after every multiplication, in the order     *)
(* the source multiplies.                                                  *)
(***************************************************************************)
EXTENDS Integers, Sequences, FiniteSets, TLC

\* ------------------------------------------------------------------ bounds

\* longest innovation slice handed to generate_path / generate_in_place
MaxLen == 2
\* largest nr_steps / nr_samples of a simulation
MaxSteps == 2
\* largest nr_paths of a simulation
MaxPaths == 2
\* most draws taken from one generator before the callers stop
MaxDraws == 4
\* the count up to which the draws of one choose_multiple call are counted,
\* and the modulus its enumeration index is kept under
MaxIterDraws == 4
\* largest vector length / matrix side handed to
\* MultivariateGeometricBrownianMotion::new
MaxDim == 3
\* largest number of weights / assets / rates handed to the pricer
MaxAssets == 2

\* --------------------------------------------------------------- f64 model

\* fixed-point units per 1.0
Scale == 1000

\* a * b on f64
FMul(a, b) == (a * b) \div Scale

RECURSIVE ISqrtBetween(_, _, _)
\* the largest r in lo..hi with r * r <= n (bisection)
ISqrtBetween(n, lo, hi) ==
    IF lo >= hi THEN lo
    ELSE LET mid == (lo + hi + 1) \div 2
         IN  IF mid * mid <= n THEN ISqrtBetween(n, mid, hi)
             ELSE ISqrtBetween(n, lo, mid - 1)

\* x.sqrt() on f64, for x >= 0
FSqrt(x) == ISqrtBetween(x * Scale, 0, x + Scale)

\* --------------------------------------------------- explicit random source

\* the seeds a caller hands to the simulator (the benches use 42)
Seeds == {42, 7}

\* SeedRng::seed_from_u64: the generator state a seed determines
SeedFromU64(seed) == [state |-> (seed * 37 + 11) % 64, count |-> 0]

\* one standard-normal draw from the explicit generator: the value drawn and
\* the generator after the draw
NextNormal(r) ==
    [z   |-> (((r.state \div 4) % 5) - 2) * (Scale \div 2),
     rng |-> [state |-> (r.state * 13 + 7) % 64, count |-> r.count + 1]]

RECURSIVE TakeNormals(_, _, _)
\* PathGenerator::sample_path for StandardNormal: nr_samples consecutive draws
TakeNormals(r, nr_samples, acc) ==
    IF nr_samples = 0 THEN [vals |-> acc, rng |-> r]
    ELSE LET d == NextNormal(r)
         IN  TakeNormals(d.rng, nr_samples - 1, Append(acc, d.z))

StandardNormal_sample_path(r, nr_samples) == TakeNormals(r, nr_samples, <<>>)

\* --------------------------------------------- GeometricBrownianMotion (gbm.rs)

\* the configurations GeometricBrownianMotion::new is called with
GbmConfigs ==
    [initial_value : {Scale, 3 * Scale}, mu : {0, Scale \div 10},
     sigma : {Scale \div 2}, dt : {Scale, 4 * Scale}]

\* the innovations of a caller-supplied slice
Innovations == {0 - Scale, 0, Scale}

\* every slice of at most n innovations
RECURSIVE SlicesUpTo(_)
SlicesUpTo(n) ==
    IF n = 0 THEN {<<>>}
    ELSE LET shorter == SlicesUpTo(n - 1)
         IN  shorter \cup {Append(s, z) : s \in {t \in shorter : Len(t) = n - 1},
                                          z \in Innovations}

\* GeometricBrownianMotion::step
step(g, st, z) ==
    LET d_st == FMul(st, FMul(g.mu, g.dt) + FMul(FMul(g.sigma, FSqrt(g.dt)), z))
    IN  st + d_st

RECURSIVE GeneratePathFrom(_, _, _, _)
\* the for loop of generate_path: push step(curr_p, z) for every z left
GeneratePathFrom(g, curr_p, rest, path) ==
    IF rest = <<>> THEN path
    ELSE LET next_p == step(g, curr_p, Head(rest))
         IN  GeneratePathFrom(g, next_p, Tail(rest), Append(path, next_p))

\* GeometricBrownianMotion::generate_path
generate_path(g, initial_value, standard_normals) ==
    GeneratePathFrom(g, initial_value, standard_normals, <<initial_value>>)

RECURSIVE InPlaceFrom(_, _, _, _)
\* the iter_mut loop of generate_in_place: slot i is overwritten by the state
InPlaceFrom(g, curr_p, buffer, i) ==
    IF i > Len(buffer) THEN buffer
    ELSE LET next_p == step(g, curr_p, buffer[i])
         IN  InPlaceFrom(g, next_p, [buffer EXCEPT ![i] = next_p], i + 1)

\* generate_in_place with the running state never advanced (curr_p stays the
\* initial value): every slot gets one step from the initial value
generate_in_place_stale(g, standard_normals) ==
    [i \in 1..Len(standard_normals) |->
        step(g, g.initial_value, standard_normals[i])]

\* GeometricBrownianMotion::generate_in_place
generate_in_place(g, standard_normals) ==
    InPlaceFrom(g, g.initial_value, standard_normals, 1)

\* PathGenerator::sample_path for GeometricBrownianMotion: the path and the
\* generator after it
gbm_sample_path(g, rn_generator, nr_samples) ==
    LET drawn == StandardNormal_sample_path(rn_generator, nr_samples)
    IN  [path |-> generate_in_place(g, drawn.vals), rng |-> drawn.rng]

\* ------------------------------------------------ ndarray Array1 / Array2

\* an Array1 is the sequence of its elements; an Array2 is the record of its
\* shape (rows, cols) and its rows, so that an array without rows still has
\* a number of columns

\* Array1::shape and Array2::shape
Shape1(a) == <<Len(a)>>
Shape2(m) == <<m.rows, m.cols>>

RECURSIVE DotFrom(_, _, _)
\* sum of a[j] * b[j] for j in 1..n
DotFrom(a, b, n) ==
    IF n = 0 THEN 0 ELSE DotFrom(a, b, n - 1) + FMul(a[n], b[n])

\* Array1::dot(Array1): defined for equal lengths, a panic otherwise
CanDot(a, b) == Len(a) = Len(b)
Dot(a, b) == DotFrom(a, b, Len(a))

\* Array2::dot(Array1): the matrix-vector product, for Len(z) = m.cols
MatDot(m, z) == [i \in 1..m.rows |-> DotFrom(m.at[i], z, m.cols)]

Min(a, b) == IF a <= b THEN a ELSE b
Max(a, b) == IF a >= b THEN a ELSE b

\* ------------------- MultivariateGeometricBrownianMotion (multivariate_gbm.rs)

\* no object: the constructor was not called
NoObject == [status |-> "none"]

\* the vector [base, 2 base, .., n base]
VecOf(n, base) == [i \in 1..n |-> base * i]

\* entries of the upper-triangular factor of the embedded test, continued
\* with a unit diagonal and 0.1 above it
FactorEntry(i, j) ==
    IF i > j THEN 0
    ELSE IF j <= 3
         THEN <<<<Scale, Scale \div 2, Scale \div 10>>,
                <<0, (6 * Scale) \div 10, (7 * Scale) \div 10>>,
                <<0, 0, (8 * Scale) \div 10>>>>[i][j]
         ELSE IF i = j THEN Scale ELSE Scale \div 10

\* the rows x cols Array2 of these entries
FactorOf(rows, cols) ==
    [rows |-> rows, cols |-> cols,
     at |-> [i \in 1..rows |-> [j \in 1..cols |-> FactorEntry(i, j)]]]

\* the time increments a model is built with
TimeSteps == {Scale, 4 * Scale}

\* innovation vectors of length d: the three rotations of the embedded
\* test's (0.1, -0.1, 0.05)
InnovationVectors(d) ==
    LET base == <<Scale \div 10, 0 - (Scale \div 10), Scale \div 20>>
    IN  {[i \in 1..d |-> base[((i - 1 + k) % 3) + 1]] : k \in 0..2}

\* MultivariateGeometricBrownianMotion::new with the second assert_eq! left
\* out: only initial_values and drifts are compared
mv_new_unchecked_factor(initial_values, drifts, cholesky_factor, dt) ==
    IF Shape1(initial_values) = Shape1(drifts)
    THEN [status |-> "ok", initial_values |-> initial_values,
          drifts |-> drifts, cholesky_factor |-> cholesky_factor, dt |-> dt]
    ELSE [status |-> "panic"]

\* MultivariateGeometricBrownianMotion::new: the object, or a panic of one
\* of the two assert_eq!
mv_new(initial_values, drifts, cholesky_factor, dt) ==
    LET iv_shape == Shape1(initial_values)
        drifts_shape == Shape1(drifts)
        matrix_shape == Shape2(cholesky_factor)
    IN  IF iv_shape # drifts_shape THEN [status |-> "panic"]
        ELSE IF matrix_shape # <<drifts_shape[1], drifts_shape[1]>>
             THEN [status |-> "panic"]
             ELSE [status |-> "ok", initial_values |-> initial_values,
                   drifts |-> drifts, cholesky_factor |-> cholesky_factor,
                   dt |-> dt]

\* sample with the correlation dropped: only the diagonal of the factor
\* multiplies the innovations
mv_sample_diagonal(m, st, z) ==
    [i \in 1..Len(st) |->
        st[i] + FMul(FMul(m.dt, m.drifts[i])
                     + FMul(FSqrt(m.dt), FMul(m.cholesky_factor.at[i][i], z[i])),
                     st[i])]

\* MultivariateGeometricBrownianMotion::sample, for st and z of the model's
\* dimension
mv_sample(m, st, z) ==
    LET lz == MatDot(m.cholesky_factor, z)
        d_st_s0 == [i \in 1..Len(m.drifts) |->
                       FMul(m.dt, m.drifts[i]) + FMul(FSqrt(m.dt), lz[i])]
        d_st == [i \in 1..Min(Len(d_st_s0), Len(st)) |->
                    FMul(d_st_s0[i], st[i])]
    IN  [i \in 1..Len(st) |-> st[i] + d_st[i]]

\* ------------------------------------- MonteCarloPathSimulator (monte_carlo.rs)

RECURSIVE SimulatePathsFrom(_, _, _, _, _)
\* simulate_paths with a GeometricBrownianMotion sampler: one sample_path call
\* per path on the one seeded generator
SimulatePathsFrom(g, r, nr_paths, nr_steps, paths) ==
    IF nr_paths = 0 THEN paths
    ELSE LET p == gbm_sample_path(g, r, nr_steps)
         IN  SimulatePathsFrom(g, p.rng, nr_paths - 1, nr_steps,
                               Append(paths, p.path))

\* MonteCarloPathSimulator::new(stock_gbm, Some(seed)).simulate_paths(..)
simulate_paths(g, seed, nr_paths, nr_steps) ==
    SimulatePathsFrom(g, SeedFromU64(seed), nr_paths, nr_steps, <<>>)

RECURSIVE SimulatePathsWithFrom(_, _, _, _, _)
\* simulate_paths_with: nr_steps raw normals per path, handed to the closure
\* |random_normals| stock_gbm.generate_path(s0, random_normals)
SimulatePathsWithFrom(g, r, nr_paths, nr_steps, paths) ==
    IF nr_paths = 0 THEN paths
    ELSE LET drawn == StandardNormal_sample_path(r, nr_steps)
         IN  SimulatePathsWithFrom(g, drawn.rng, nr_paths - 1, nr_steps,
                 Append(paths, generate_path(g, g.initial_value, drawn.vals)))

\* MonteCarloPathSimulator::new(StandardNormal, Some(seed)).simulate_paths_with(..)
simulate_paths_with(g, seed, nr_paths, nr_steps) ==
    SimulatePathsWithFrom(g, SeedFromU64(seed), nr_paths, nr_steps, <<>>)

RECURSIVE SimulatePathsInPlaceFrom(_, _, _, _, _)
\* simulate_paths_apply_in_place: the buffer of nr_steps raw normals is
\* overwritten by |random_normals| stock_gbm.generate_in_place(random_normals)
\* and becomes the path
SimulatePathsInPlaceFrom(g, r, nr_paths, nr_steps, paths) ==
    IF nr_paths = 0 THEN paths
    ELSE LET drawn == StandardNormal_sample_path(r, nr_steps)
         IN  SimulatePathsInPlaceFrom(g, drawn.rng, nr_paths - 1, nr_steps,
                 Append(paths, generate_in_place(g, drawn.vals)))

\* MonteCarloPathSimulator::new(StandardNormal, Some(seed))
\*     .simulate_paths_apply_in_place(..)
simulate_paths_apply_in_place(g, seed, nr_paths, nr_steps) ==
    SimulatePathsInPlaceFrom(g, SeedFromU64(seed), nr_paths, nr_steps, <<>>)

\* PathGenerator::sample_path for MultivariateGeometricBrownianMotion, the
\* sampler the simulator drives: the initial values, then nr_steps times
\* sample on a vector of dim consecutive draws of the seeded generator
RECURSIVE MvPathFrom(_, _, _, _)
MvPathFrom(m, r, nr_steps, path) ==
    IF nr_steps = 0 THEN [path |-> path, rng |-> r]
    ELSE LET drawn == StandardNormal_sample_path(r, Len(m.initial_values))
         IN  MvPathFrom(m, drawn.rng, nr_steps - 1,
                        Append(path, mv_sample(m, path[Len(path)], drawn.vals)))

RECURSIVE MvSimulatePathsFrom(_, _, _, _, _)
MvSimulatePathsFrom(m, r, nr_paths, nr_steps, paths) ==
    IF nr_paths = 0 THEN paths
    ELSE LET p == MvPathFrom(m, r, nr_steps, <<m.initial_values>>)
         IN  MvSimulatePathsFrom(m, p.rng, nr_paths - 1, nr_steps,
                                 Append(paths, p.path))

\* MonteCarloPathSimulator::new(gbm, Some(seed)).simulate_paths(..) on a
\* multivariate model
mv_simulate_paths(m, seed, nr_paths, nr_steps) ==
    MvSimulatePathsFrom(m, SeedFromU64(seed), nr_paths, nr_steps, <<>>)

\* ------------------------------------------- PathEvaluator (monte_carlo.rs)

Some(v) == [some |-> TRUE, v |-> v]
None == [some |-> FALSE, v |-> 0]

RECURSIVE AverageFrom(_, _, _, _)
\* sum and count of the values f yielded, path by path
AverageFrom(results, i, sum, n) ==
    IF i > Len(results)
    THEN IF n = 0 THEN None ELSE Some(sum \div n)
    ELSE IF results[i].some
         THEN AverageFrom(results, i + 1, sum + results[i].v, n + 1)
         ELSE AverageFrom(results, i + 1, sum, n)

\* PathEvaluator::evaluate_average, on what f yielded for each path
evaluate_average(results) == AverageFrom(results, 1, 0, 0)

\* --------------------------- MonteCarloEuropeanBasketOption (basket_option.rs)

\* a / b on f64; x / 0.0 is infinite for x > 0
FDiv(a, b) == IF b = 0 THEN "inf" ELSE (a * Scale) \div b

\* x.exp() on f64: the series 1 + x + x^2/2 + x^3/6 + x^4/24
FExp(x) ==
    LET t2 == FMul(x, x) \div 2
        t3 == FMul(t2, x) \div 3
        t4 == FMul(t3, x) \div 4
    IN  Scale + x + t2 + t3 + t4

RECURSIVE Pow2(_)
Pow2(n) == IF n = 0 THEN 1 ELSE 2 * Pow2(n - 1)

\* n weights 1/2, 1/4, .. that sum to 1.0
SplitWeights(n) ==
    [i \in 1..n |-> IF i < n THEN Scale \div Pow2(i) ELSE Scale \div Pow2(n - 1)]

\* n weights of 0.3 each, which never sum to 1.0
FlatWeights(n) == [i \in 1..n |-> (3 * Scale) \div 10]

Strikes == {Scale, 2 * Scale}

\* MonteCarloEuropeanBasketOption::new with the assert_eq! on the weights
\* left out
basket_new_unchecked(weights, asset_prices, rf_rates, cholesky_factor, strike, time_to_expiration, nr_paths, nr_steps, seed_nr) ==
    [status |-> "ok", time_to_expiration |-> time_to_expiration,
     strike |-> strike, cholesky_factor |-> cholesky_factor,
     rf_rates |-> rf_rates, asset_prices |-> asset_prices,
     weights |-> weights, nr_paths |-> nr_paths, nr_steps |-> nr_steps,
     seed_nr |-> seed_nr]

RECURSIVE FoldSum(_, _, _)
\* weights.iter().fold(0.0, |acc, c| acc + c)
FoldSum(a, i, acc) == IF i > Len(a) THEN acc ELSE FoldSum(a, i + 1, acc + a[i])

\* MonteCarloEuropeanBasketOption::new: the pricer, or the panic of
\* assert_eq!(weight_sum, 1.0)
basket_new(weights, asset_prices, rf_rates, cholesky_factor, strike, time_to_expiration, nr_paths, nr_steps, seed_nr) ==
    LET weight_sum == FoldSum(weights, 1, 0)
    IN  IF weight_sum # Scale THEN [status |-> "panic"]
        ELSE [status |-> "ok", time_to_expiration |-> time_to_expiration,
              strike |-> strike, cholesky_factor |-> cholesky_factor,
              rf_rates |-> rf_rates, asset_prices |-> asset_prices,
              weights |-> weights, nr_paths |-> nr_paths,
              nr_steps |-> nr_steps, seed_nr |-> seed_nr]

\* MonteCarloEuropeanBasketOption::dt
basket_dt(o) == FDiv(o.time_to_expiration, o.nr_steps * Scale)

\* From<&MonteCarloEuropeanBasketOption> for MultivariateGeometricBrownianMotion
basket_into_gbm(o) ==
    mv_new(o.asset_prices, o.rf_rates, o.cholesky_factor, basket_dt(o))

\* call_payoff that yields a value only for a path ending in the money
call_payoff_in_the_money(strike, weights, disc_factor, path) ==
    IF Len(path) = 0 THEN None
    ELSE IF Dot(path[Len(path)], weights) - strike <= 0 THEN None
         ELSE Some(FMul(Dot(path[Len(path)], weights) - strike, disc_factor))

\* MonteCarloEuropeanBasketOption::call_payoff: the discounted payoff at the
\* last row of the path, nothing for a path without rows
call_payoff(strike, weights, disc_factor, path) ==
    IF Len(path) = 0 THEN None
    ELSE Some(FMul(Max(Dot(path[Len(path)], weights) - strike, 0), disc_factor))

\* MonteCarloEuropeanBasketOption::put_payoff
put_payoff(strike, weights, disc_factor, path) ==
    IF Len(path) = 0 THEN None
    ELSE Some(FMul(Max(strike - Dot(path[Len(path)], weights), 0), disc_factor))

\* the closures handed to evaluate_average: those of call() and put(), and a
\* caller's own that keeps only the paths ending in the money
Reductions == {"call", "put", "in_the_money"}

PayOff(kind, o, disc_factor, path) ==
    CASE kind = "call" -> call_payoff(o.strike, o.weights, disc_factor, path)
      [] kind = "put" -> put_payoff(o.strike, o.weights, disc_factor, path)
      [] OTHER -> LET c == call_payoff(o.strike, o.weights, disc_factor, path)
                  IN  IF c.some /\ c.v > 0 THEN c ELSE None

\* the payoff closure panics in p.dot(weights) on a row of another length
PayOffCanRun(o, path) ==
    Len(path) = 0 \/ CanDot(path[Len(path)], o.weights)

\* MonteCarloEuropeanBasketOption::discount_factor, for rf_rates and weights
\* of one length
discount_factor(o, t) == FExp(FMul(0 - t, Dot(o.rf_rates, o.weights)))

NotReached ==
    [dynamics |-> NoObject, simulated |-> FALSE, paths |-> <<>>,
     results |-> <<>>, value |-> None]

\* MonteCarloEuropeanBasketOption::sample_payoffs
sample_payoffs(o, kind, disc_factor) ==
    LET gbm_ == basket_into_gbm(o)
    IN  IF gbm_.status = "panic"
        THEN [NotReached EXCEPT !.dynamics = gbm_] @@
             [outcome |-> "panic", at |-> "dynamics_new"]
        ELSE LET paths == mv_simulate_paths(gbm_, o.seed_nr, o.nr_paths,
                                            o.nr_steps)
                 reached == [NotReached EXCEPT !.dynamics = gbm_,
                                               !.simulated = TRUE,
                                               !.paths = paths]
             IN  IF \E i \in 1..Len(paths) : ~PayOffCanRun(o, paths[i])
                 THEN reached @@ [outcome |-> "panic", at |-> "pay_off"]
                 ELSE LET results ==
                              [i \in 1..Len(paths) |->
                                  PayOff(kind, o, disc_factor, paths[i])]
                      IN  [reached EXCEPT !.results = results,
                                          !.value = evaluate_average(results)]
                          @@ [outcome |-> "returned", at |-> "end"]

\* MonteCarloEuropeanBasketOption::call and ::put
price_option(o, kind) ==
    IF ~CanDot(o.rf_rates, o.weights)
    THEN NotReached @@ [outcome |-> "panic", at |-> "discount_factor"]
    ELSE sample_payoffs(o, kind, discount_factor(o, o.time_to_expiration))

\* ------------------------------------------------------------------- state

VARIABLES
    gbm,    \* the GeometricBrownianMotion object
    zs,     \* the innovation slice the caller holds
    gp,     \* last generate_path call: its argument and its result
    ip,     \* last generate_in_place call: the buffer after it
    rng,    \* the explicit generator handed to sample_path
    sp,     \* last PathGenerator::sample_path call on gbm
    run,    \* the (seed, nr_paths, nr_steps) of the benchmark run
    ens,    \* the ensembles the three benchmark routes returned
    mv_args,\* the arguments of the MultivariateGeometricBrownianMotion::new call
    mv,     \* what that call gave: no call yet, the object, or a panic
    smp,    \* last MultivariateGeometricBrownianMotion::sample call
    mvp,    \* the running MultivariateGeometricBrownianMotion::sample_path call
    opt_args,\* the arguments of the MonteCarloEuropeanBasketOption::new call
    opt,    \* what that call gave: no call yet, the pricer, or a panic
    price,  \* last call() / put() on the pricer: how far it got, its result
    ev      \* last evaluate_average of a caller on the simulated ensemble

gbmVars == <<gbm, zs, gp, ip, rng, sp>>

simVars == <<run, ens>>

mvVars == <<mv_args, mv, smp, mvp>>

optVars == <<opt_args, opt, price, ev>>

vars == <<gbmVars, simVars, mvVars, optVars>>

NoCallGp == [done |-> FALSE, initial_value |-> 0, path |-> <<>>]
NoCallIp == [done |-> FALSE, buffer |-> <<>>]
NoCallSp == [done |-> FALSE, nr_samples |-> 0, path |-> <<>>, consumed |-> 0]
NoEnsemble == [done |-> FALSE, paths |-> <<>>]
Routes == {"sampler", "with", "in_place"}

\* the scalar GBM of the benchmarks and its caller, before any call
IdleGbm ==
    /\ zs = <<>>
    /\ rng = SeedFromU64(42)
    /\ gp = NoCallGp
    /\ ip = NoCallIp
    /\ sp = NoCallSp

NoCallSmp == [done |-> FALSE, st |-> <<>>, z |-> <<>>, out |-> <<>>]
NoCallMvp ==
    [pc |-> "idle", nr_steps |-> 0, amount |-> 0, path |-> <<>>,
     reservoir |-> <<>>, stream |-> <<>>, i |-> 0, iter_draws |-> 0,
     ambient_draws |-> 0]

\* no multivariate model built
IdleMv ==
    /\ mv_args = NoObject
    /\ mv = NoObject
    /\ smp = NoCallSmp
    /\ mvp = NoCallMvp

NoCallPrice ==
    NotReached @@ [done |-> FALSE, kind |-> "none", outcome |-> "none",
                   at |-> "none"]
NoCallEv == [done |-> FALSE, f |-> "none", results |-> <<>>, value |-> None]

\* no pricer built
IdleOpt ==
    /\ opt_args = NoObject
    /\ opt = NoObject
    /\ price = NoCallPrice
    /\ ev = NoCallEv

\* no benchmark run
IdleSim ==
    /\ run = [seed |-> 42, nr_paths |-> 0, nr_steps |-> 0]
    /\ ens = [r \in Routes |-> NoEnsemble]

\* --------------------------------------------------- scalar GBM operations

InitGbm ==
    /\ gbm \in GbmConfigs
    /\ zs \in SlicesUpTo(MaxLen)
    /\ \E seed \in Seeds : rng = SeedFromU64(seed)
    /\ gp = NoCallGp
    /\ ip = NoCallIp
    /\ sp = NoCallSp
    /\ IdleSim
    /\ IdleMv
    /\ IdleOpt

\* a caller runs generate_path on its slice, with any initial value
GeneratePath ==
    /\ \E initial_value \in {g.initial_value : g \in GbmConfigs} :
          gp' = [done |-> TRUE, initial_value |-> initial_value,
                 path |-> generate_path(gbm, initial_value, zs)]
    /\ UNCHANGED <<gbm, zs, ip, rng, sp, simVars, mvVars, optVars>>

\* a caller runs generate_in_place on a buffer holding its slice
GenerateInPlace ==
    /\ ip' = [done |-> TRUE, buffer |-> generate_in_place(gbm, zs)]
    /\ UNCHANGED <<gbm, zs, gp, rng, sp, simVars, mvVars, optVars>>

\* the simulator asks the GBM object for a path of nr_samples draws
SamplePath ==
    /\ \E nr_samples \in 0..MaxSteps :
          LET r == gbm_sample_path(gbm, rng, nr_samples)
          IN  /\ rng.count + nr_samples <= MaxDraws
              /\ sp' = [done |-> TRUE, nr_samples |-> nr_samples,
                        path |-> r.path,
                        consumed |-> r.rng.count - rng.count]
              /\ rng' = r.rng
    /\ UNCHANGED <<gbm, zs, gp, ip, simVars, mvVars, optVars>>

NextGbm == GeneratePath \/ GenerateInPlace \/ SamplePath

SpecGbm == InitGbm /\ [][NextGbm]_vars

\* ------------------------------------------- the three benchmark routes

InitSim ==
    /\ gbm \in GbmConfigs
    /\ IdleGbm
    /\ run \in [seed : Seeds, nr_paths : 0..MaxPaths, nr_steps : 0..MaxSteps]
    /\ ens = [r \in Routes |-> NoEnsemble]
    /\ IdleMv
    /\ IdleOpt

\* simulate_paths_with_path_generator_gbm: the GBM object is the sampler
SimulatePathsGbm ==
    /\ ens' = [ens EXCEPT !["sampler"] =
                 [done |-> TRUE,
                  paths |-> simulate_paths(gbm, run.seed, run.nr_paths,
                                           run.nr_steps)]]
    /\ UNCHANGED <<gbmVars, run, mvVars, optVars>>

\* simulate_paths_with_path_generator: generate_path as the step function
SimulatePathsWith ==
    /\ ens' = [ens EXCEPT !["with"] =
                 [done |-> TRUE,
                  paths |-> simulate_paths_with(gbm, run.seed, run.nr_paths,
                                                run.nr_steps)]]
    /\ UNCHANGED <<gbmVars, run, mvVars, optVars>>

\* simulate_paths_with_path_generator_in_place: generate_in_place as the
\* step function
SimulatePathsInPlace ==
    /\ ens' = [ens EXCEPT !["in_place"] =
                 [done |-> TRUE,
                  paths |-> simulate_paths_apply_in_place(gbm, run.seed,
                                run.nr_paths, run.nr_steps)]]
    /\ UNCHANGED <<gbmVars, run, mvVars, optVars>>

NextSim == SimulatePathsGbm \/ SimulatePathsWith \/ SimulatePathsInPlace

SpecSim == InitSim /\ [][NextSim]_vars

\* ------------------------------------ multivariate GBM: new, sample, sample_path

\* the draws an iterator over the thread-local generator can yield
PathDraws == {0 - (Scale \div 10), Scale \div 10}

InitMv ==
    /\ gbm = [initial_value |-> Scale, mu |-> 0, sigma |-> Scale \div 2,
              dt |-> Scale]
    /\ IdleGbm
    /\ IdleSim
    /\ IdleMv
    /\ IdleOpt

\* MultivariateGeometricBrownianMotion::new on arrays of any shapes
MvNew ==
    /\ mv.status = "none"
    /\ \E n_iv \in 0..MaxDim, n_dr \in 0..MaxDim, rows \in 0..MaxDim,
          cols \in 0..MaxDim, dt \in TimeSteps :
          LET initial_values == VecOf(n_iv, Scale)
              drifts == VecOf(n_dr, Scale \div 10)
              cholesky_factor == FactorOf(rows, cols)
          IN  /\ mv_args' = [status |-> "called",
                             initial_values |-> initial_values,
                             drifts |-> drifts,
                             cholesky_factor |-> cholesky_factor, dt |-> dt]
              /\ mv' = mv_new(initial_values, drifts, cholesky_factor, dt)
    /\ UNCHANGED <<gbmVars, simVars, optVars, smp, mvp>>

\* sample(st, z) on the built model; sample_path, once called, never hands
\* control back to the caller
MvSample ==
    /\ mv.status = "ok"
    /\ mvp.pc = "idle"
    /\ LET d == Len(mv.initial_values)
       IN  \E st \in {VecOf(d, Scale), VecOf(d, 2 * Scale)},
              z \in InnovationVectors(d) :
              smp' = [done |-> TRUE, st |-> st, z |-> z,
                      out |-> mv_sample(mv, st, z)]
    /\ UNCHANGED <<gbmVars, simVars, optVars, mv_args, mv, mvp>>

\* sample_path, lines 66-71: the path holds the initial values, the
\* thread-local generator is fetched, choose_multiple starts filling its
\* reservoir of dim * nr_steps slots; the calls followed are those whose
\* reservoir is smaller than the count of draws kept
MvSamplePathCall ==
    /\ mv.status = "ok"
    /\ mvp.pc = "idle"
    /\ \E nr_steps \in 0..MaxSteps :
          LET amount == Len(mv.initial_values) * nr_steps
          IN  /\ amount < MaxIterDraws
              /\ mvp' = [pc |-> IF amount = 0 THEN "scan" ELSE "fill",
                         nr_steps |-> nr_steps, amount |-> amount,
                         path |-> <<mv.initial_values>>, reservoir |-> <<>>,
                         stream |-> <<>>, i |-> 0, iter_draws |-> 0,
                         ambient_draws |-> 0]
    /\ UNCHANGED <<gbmVars, simVars, optVars, mv_args, mv, smp>>

\* choose_multiple, reservoir.extend(self.by_ref().take(amount)): one more
\* draw of the iterator fills the next slot; stream keeps the iterator's
\* first amount draws in the order it yielded them
MvChooseFill ==
    /\ mvp.pc = "fill"
    /\ \E elem \in PathDraws :
          LET filled == Append(mvp.reservoir, elem)
          IN  mvp' = [mvp EXCEPT
                        !.reservoir = filled,
                        !.stream = Append(@, elem),
                        !.iter_draws = Min(@ + 1, MaxIterDraws),
                        !.pc = IF Len(filled) = mvp.amount THEN "scan"
                               ELSE "fill"]
    /\ UNCHANGED <<gbmVars, simVars, optVars, mv_args, mv, smp>>

\* choose_multiple, for (i, elem) in self.enumerate(): the iterator of
\* normal draws never ends, so every iteration draws elem from it and an
\* index k below i + 1 + amount from the thread-local generator, and
\* overwrites slot k when there is one; the loop has no other exit than
\* the end of the iterator. Only whether k falls below amount acts on the
\* reservoir, so the index i is kept modulo MaxIterDraws
MvChooseScan ==
    /\ mvp.pc = "scan"
    /\ \E elem \in PathDraws, k \in 0..(mvp.i + mvp.amount) :
          mvp' = [mvp EXCEPT
                    !.reservoir = IF k < mvp.amount
                                  THEN [@ EXCEPT ![k + 1] = elem] ELSE @,
                    !.i = (@ + 1) % MaxIterDraws,
                    !.iter_draws = Min(@ + 1, MaxIterDraws),
                    !.ambient_draws = Min(@ + 1, MaxIterDraws)]
    /\ UNCHANGED <<gbmVars, simVars, optVars, mv_args, mv, smp>>

NextMv == MvNew \/ MvSample \/ MvSamplePathCall \/ MvChooseFill \/ MvChooseScan

SpecMv == InitMv /\ [][NextMv]_vars

\* a sample_path call that has started keeps running: the thread it runs on
\* is scheduled, so a step of choose_multiple that can be taken is taken
SpecMvLive ==
    SpecMv /\ WF_vars(MvChooseFill) /\ WF_vars(MvChooseScan)

\* --------------------------------------------- the basket option pricer

InitBasket ==
    /\ gbm = [initial_value |-> Scale, mu |-> 0, sigma |-> Scale \div 2,
              dt |-> Scale]
    /\ IdleGbm
    /\ IdleSim
    /\ IdleMv
    /\ IdleOpt

\* MonteCarloEuropeanBasketOption::new on arrays of any lengths
BasketNew ==
    /\ opt.status = "none"
    /\ \E n_w \in 0..MaxAssets, n_a \in 0..MaxAssets, n_r \in 0..MaxAssets,
          side \in 0..MaxAssets, strike \in Strikes,
          nr_paths \in 0..MaxPaths, nr_steps \in 0..MaxSteps :
          \E weights \in {SplitWeights(n_w), FlatWeights(n_w)} :
             LET asset_prices == VecOf(n_a, Scale)
                 rf_rates == VecOf(n_r, Scale \div 100)
                 cholesky_factor == FactorOf(side, side)
             IN  /\ opt_args' =
                        [status |-> "called", time_to_expiration |-> Scale,
                         strike |-> strike,
                         cholesky_factor |-> cholesky_factor,
                         rf_rates |-> rf_rates,
                         asset_prices |-> asset_prices, weights |-> weights,
                         nr_paths |-> nr_paths, nr_steps |-> nr_steps,
                         seed_nr |-> 42]
                 /\ opt' = basket_new(weights, asset_prices, rf_rates,
                                      cholesky_factor, strike, Scale,
                                      nr_paths, nr_steps, 42)
    /\ UNCHANGED <<gbmVars, simVars, mvVars, price, ev>>

\* call() or put() on the built pricer
BasketPrice ==
    /\ opt.status = "ok"
    /\ \E kind \in {"call", "put"} :
          price' = price_option(opt, kind) @@ [done |-> TRUE, kind |-> kind]
    /\ UNCHANGED <<gbmVars, simVars, mvVars, opt_args, opt, ev>>

\* a caller reduces the ensemble of the last pricing run with its own closure
Evaluate ==
    /\ price.done
    /\ price.outcome = "returned"
    /\ \E f \in Reductions :
          LET disc_factor == discount_factor(opt, opt.time_to_expiration)
              results == [i \in 1..Len(price.paths) |->
                             PayOff(f, opt, disc_factor, price.paths[i])]
          IN  ev' = [done |-> TRUE, f |-> f, results |-> results,
                     value |-> evaluate_average(results)]
    /\ UNCHANGED <<gbmVars, simVars, mvVars, opt_args, opt, price>>

NextBasket == BasketNew \/ BasketPrice \/ Evaluate

SpecBasket == InitBasket /\ [][NextBasket]_vars

\* ------------------------------------------------------------- properties

\* C1: generate_in_place on a buffer holding zs leaves the buffer as long as
\* it was, and with the configured initial value prepended it is the path
\* generate_path(initial_value, zs) returns for that initial value.
C1_InPlaceMatchesGeneratePath ==
    (gp.done /\ ip.done /\ gp.initial_value = gbm.initial_value) =>
        /\ Len(ip.buffer) = Len(zs)
        /\ Len(gp.path) = Len(zs) + 1
        /\ \A i \in 1..Len(zs) : ip.buffer[i] = gp.path[i + 1]
        /\ <<gbm.initial_value>> \o ip.buffer = gp.path

\* both routes ran on a slice of two innovations that moved the state twice
C1_Witness ==
    /\ gp.done /\ ip.done /\ gp.initial_value = gbm.initial_value
    /\ Len(zs) = 2
    /\ ip.buffer[1] # gbm.initial_value
    /\ ip.buffer[2] # ip.buffer[1]

\* C2: for one seed, configuration, nr_paths and nr_steps the three routes
\* (the GBM object as sampler, generate_path as step function,
\* generate_in_place as step function) return the same ensemble.
C2_RoutesAgree ==
    (\A r \in Routes : ens[r].done) =>
        /\ ens["sampler"].paths = ens["with"].paths
        /\ ens["with"].paths = ens["in_place"].paths

\* C3: a path the GBM object samples for the simulator has nr_steps + 1
\* elements and starts with the configured initial value.
C3_SampledPathStartsAtInitialValue ==
    sp.done =>
        /\ Len(sp.path) = sp.nr_samples + 1
        /\ sp.path[1] = gbm.initial_value

\* C4: new returns an object exactly when initial_values and drifts have one
\* length d and the factor is d x d; otherwise it panics, and then nothing
\* was sampled and no path was started; a returned object has these shapes.
C4_NewValidatesShapes ==
    mv_args.status = "called" =>
        LET d == Len(mv_args.drifts)
            fits == /\ Len(mv_args.initial_values) = d
                    /\ mv_args.cholesky_factor.rows = d
                    /\ mv_args.cholesky_factor.cols = d
        IN  /\ mv.status = IF fits THEN "ok" ELSE "panic"
            /\ mv.status = "ok" =>
                  /\ Len(mv.initial_values) = Len(mv.drifts)
                  /\ mv.cholesky_factor.rows = Len(mv.drifts)
                  /\ mv.cholesky_factor.cols = Len(mv.drifts)
                  /\ \A i \in 1..Len(mv.drifts) :
                        Len(mv.cholesky_factor.at[i]) = Len(mv.drifts)
            /\ mv.status = "panic" => (smp = NoCallSmp /\ mvp = NoCallMvp)

\* new was handed vectors of one length and a factor that is not square of
\* that side, and panicked
C4_Witness ==
    /\ mv_args.status = "called"
    /\ Len(mv_args.initial_values) = 2
    /\ Len(mv_args.drifts) = 2
    /\ mv_args.cholesky_factor.rows = 2
    /\ mv_args.cholesky_factor.cols = 3
    /\ mv.status = "panic"

RECURSIVE RowTimes(_, _, _)
\* sum over j = from .. Len(z) of row[j] * z[j]
RowTimes(row, z, from) ==
    IF from > Len(z) THEN 0
    ELSE FMul(row[from], z[from]) + RowTimes(row, z, from + 1)

\* C5: sample(S, z) is, component by component,
\* S_i + S_i * (dt * drift_i + sqrt(dt) * sum_j L[i][j] * z_j), and on the
\* embedded example (initial 1,2,3; drift 0.1,0.2,0.3; the 3 x 3 factor;
\* dt 4; z 0.1,-0.1,0.05) it is 1.51, 3.5, 6.84; the object, whose initial
\* values may be the S passed, is as it was constructed.
C5_SampleFormula ==
    smp.done =>
        /\ mv = [mv_args EXCEPT !.status = "ok"]
        /\ Len(smp.out) = Len(mv.initial_values)
        /\ \A i \in 1..Len(smp.out) :
              smp.out[i] =
                  smp.st[i]
                  + FMul(smp.st[i],
                         FMul(mv.dt, mv.drifts[i])
                         + FMul(FSqrt(mv.dt),
                                RowTimes(mv.cholesky_factor.at[i], smp.z, 1)))
        /\ ( /\ mv.initial_values = <<Scale, 2 * Scale, 3 * Scale>>
             /\ mv.dt = 4 * Scale
             /\ smp.st = mv.initial_values
             /\ smp.z = <<100, -100, 50>> )
           => smp.out = <<1510, 3500, 6840>>

\* sample ran on the embedded example
C5_Witness ==
    /\ smp.done
    /\ mv.drifts = <<100, 200, 300>>
    /\ mv.cholesky_factor.at =
           <<<<1000, 500, 100>>, <<0, 600, 700>>, <<0, 0, 800>>>>
    /\ mv.dt = 4000
    /\ smp.st = <<1000, 2000, 3000>>
    /\ smp.z = <<100, -100, 50>>
    /\ smp.out = <<1510, 3500, 6840>>

RECURSIVE SeqSum(_)
SeqSum(a) == IF a = <<>> THEN 0 ELSE Head(a) + SeqSum(Tail(a))

\* C6: the pricer's new panics exactly when the weights do not sum to 1.0,
\* and then no dynamics object, simulation or evaluation exists; otherwise it
\* returns a pricer holding every argument as supplied.
C6_NewRejectsWeights ==
    opt_args.status = "called" =>
        /\ opt.status = IF SeqSum(opt_args.weights) = Scale THEN "ok"
                        ELSE "panic"
        /\ opt.status = "ok" => opt = [opt_args EXCEPT !.status = "ok"]
        /\ opt.status = "panic" =>
              (price = NoCallPrice /\ ev = NoCallEv /\ mv = NoObject)

\* new was handed two weights of 0.3 and panicked
C6_Witness ==
    /\ opt_args.status = "called"
    /\ opt_args.weights = <<300, 300>>
    /\ opt.status = "panic"

\* weights, asset_prices and rf_rates have one length d, the factor is d x d
ConsistentShapes(o) ==
    /\ Len(o.weights) = Len(o.asset_prices)
    /\ Len(o.rf_rates) = Len(o.asset_prices)
    /\ o.cholesky_factor.rows = Len(o.asset_prices)
    /\ o.cholesky_factor.cols = Len(o.asset_prices)

\* C7: every configuration whose lengths or factor shape do not fit is
\* refused when the pricer is constructed, so a pricer that exists fits, and
\* no call() or put() fails on a shape after simulate_paths has run.
C7_ShapesRejectedAtConstruction ==
    /\ opt.status = "ok" => ConsistentShapes(opt)
    /\ (price.done /\ price.outcome = "panic") => ~price.simulated

RECURSIVE SumOver(_, _)
\* sum of results[i].v over the indices in idx
SumOver(results, idx) ==
    IF idx = {} THEN 0
    ELSE LET i == CHOOSE k \in idx : TRUE
         IN  results[i].v + SumOver(results, idx \ {i})

\* what evaluate_average is to return for what f yielded per path
MeanOfYielded(results, value) ==
    LET yielded == {i \in 1..Len(results) : results[i].some}
    IN  /\ value.some <=> yielded # {}
        /\ yielded # {} =>
              value.v = SumOver(results, yielded) \div Cardinality(yielded)

C9_ZeroStepsGiveInitialState ==
    /\ (gp.done /\ Len(zs) = 0) => gp.path = <<gp.initial_value>>
    /\ (sp.done /\ sp.nr_samples = 0) =>
          (sp.path = <<gbm.initial_value>> /\ sp.consumed = 0)
    /\ (mvp.pc # "idle" /\ mvp.nr_steps = 0) =>
          (mvp.path = <<mv.initial_values>> /\ mvp.iter_draws = 0)

\* C10: no path-generating operation draws from an ambient generator: the
\* only randomness used is the source the caller passed.
C10_NoAmbientRandomness == mvp.ambient_draws = 0

\* the first n draws of the generator seeded with seed, in the order drawn
SeededStream(seed, n) == TakeNormals(SeedFromU64(seed), n, <<>>).vals

\* C11: draws are consumed path by path and, within a path, step by step,
\* from one stream: path p of a seeded run over the GBM sampler is built from
\* the stream's elements p * nr_steps .. p * nr_steps + nr_steps - 1, its k-th
\* step from the k-th of them; and the innovation vector of step k of a
\* multivariate path is the k-th consecutive block of d draws taken for that
\* path, in the order the stream yielded them.
C11_DrawsInStreamOrder ==
    /\ ens["sampler"].done =>
          LET n == run.nr_steps
              s == SeededStream(run.seed, run.nr_paths * n)
          IN  /\ Len(ens["sampler"].paths) = run.nr_paths
              /\ \A p \in 1..run.nr_paths :
                    ens["sampler"].paths[p] =
                        generate_in_place(
                            gbm, SubSeq(s, (p - 1) * n + 1, p * n))
    /\ mvp.pc = "scan" =>
          LET d == Len(mv.initial_values)
          IN  \A k \in 1..mvp.nr_steps :
                 SubSeq(mvp.reservoir, (k - 1) * d + 1, k * d)
                     = SubSeq(mvp.stream, (k - 1) * d + 1, k * d)

RECURSIVE PathOverBlocks(_, _, _)
\* path extended by one state per block of Len(m.initial_values) innovations
\* left in innovations: its last state advanced by sample over the block
PathOverBlocks(m, innovations, path) ==
    IF innovations = <<>> THEN path
    ELSE LET d == Len(m.initial_values)
             z == SubSeq(innovations, 1, d)
             rest == SubSeq(innovations, d + 1, Len(innovations))
         IN  PathOverBlocks(
                 m, rest, Append(path, mv_sample(m, path[Len(path)], z)))

\* C12: for every nr_steps >= 0 and d >= 1 a sample_path call on the
\* multivariate model returns a path of nr_steps + 1 states of length d whose
\* state 0 is initial_values and whose state i + 1 is sample(state i, z_i),
\* z_i being the i-th block of d innovations, and the model is as it was
\* constructed.
C12_SamplePathReturnsPath ==
    [](( /\ mvp.pc # "idle"
         /\ Len(mv.initial_values) >= 1 )
       => <>( /\ mvp.pc = "returned"
              /\ Len(mvp.path) = mvp.nr_steps + 1
              /\ \A i \in 1..Len(mvp.path) :
                    Len(mvp.path[i]) = Len(mv.initial_values)
              /\ mvp.path =
                     PathOverBlocks(mv, mvp.stream, <<mv.initial_values>>)
              /\ mv = [mv_args EXCEPT !.status = "ok"] ))

\* C13: for every nr_steps >= 0 and d >= 1 a sample_path call handed the
\* unbounded iterator of normal draws terminates: it stops reading the
\* iterator and returns.
C13_SamplePathTerminates ==
    (mvp.pc # "idle" /\ Len(mv.initial_values) >= 1)
        ~> (mvp.pc \notin {"fill", "scan"})

====
